---- MODULE Spec2Model ----
(***************************************************************************)
(* Largest Contentful Paint detection: the compositor-side detector        *)
(* (components/compositing/largest_contentful_paint.rs), the candidate     *)
(* types it consumes (components/shared/compositing/                       *)
(* largest_contentful_paint_candidate.rs), the layout-side collector       *)
(* (components/layout/display_list/largest_contenful_paint_collector.rs),  *)
(* and the headless event loop of servoshell                               *)
(* (ports/servoshell/desktop/events_loop.rs).                              *)
(***************************************************************************)
EXTENDS Integers, Sequences, FiniteSets, TLC

\* ------------------------------------------------------------------ bounds
MaxCandidates == 2      \* candidates handed to the detector in one behaviour
MaxSize == 2            \* candidate sizes are 1..MaxSize
MaxEpoch == 2           \* epochs are 1..MaxEpoch
MaxTime == 2            \* paint times are 1..MaxTime

Pipelines == {"P", "Q"}
Tags == {5, 9}
Sizes == 1..MaxSize
Epochs == 1..MaxEpoch
Times == 1..MaxTime

\* Option<T>: None is the empty sequence, Some(x) the one-element sequence.
None == <<>>
Some(x) == <<x>>

VARIABLES
    lcp_calculators,    \* HashMap<PipelineId, LargestContentfulPaintCalculator>
    result,             \* value returned by the last calculate_largest_contentful_paint
    created,            \* history: pipeline, size and epoch of every candidate handed over, by id
    stamps,             \* history: stamps[id] = the calls (paint time, epoch) that stamped candidate id
    emitted,            \* history: last non-empty value returned, per pipeline
    painted,            \* history: epoch of the last calculate call, per pipeline
    pc,                 \* position in the scripted scenario (0 outside it)
    scenario,           \* the scripted scenario's pipeline and times
    clip_tree,          \* LargestContentfulPaintCollector.clip_tree
    scroll_tree,        \* the ScrollTree handed to record_image_candidate
    viewport_size,      \* the viewport size handed to record_image_candidate
    current_scroll_node_id, \* LargestContentfulPaintCollector.current_scroll_node_id
    current_clip_id,    \* LargestContentfulPaintCollector.current_clip_id
    largerst_image,     \* LargestContentfulPaintCollector.largerst_image
    lcp_candidates,     \* the LCPCandidates record the collector writes to
    walk,               \* history: the last compute_visual_rect call, step by step
    seen,               \* history: the record_image_candidate calls of the current pass
    handed,             \* history: the current pass has handed over its record
    flag,               \* the bool in the Mutex of EventLoop::Headless
    mutex,              \* who holds that Mutex: "free", "loop" or a waker
    loop_pc,            \* where the thread of run_app is
    waker_pc,           \* where each thread calling wake is
    woken               \* history: wake has set the flag since sleep last returned

collectorVars == <<clip_tree, scroll_tree, viewport_size, current_scroll_node_id,
                   current_clip_id, largerst_image, lcp_candidates, walk, seen, handed>>

loopVars == <<flag, mutex, loop_pc, waker_pc, woken>>

vars == <<lcp_calculators, result, created, stamps, emitted, painted, pc, scenario,
          collectorVars, loopVars>>

\* ----------------------------------------------------------- candidate types

\* ImageCandidate::new; id is the identity of the value (not a field of the
\* struct), used only by the history variables.
ImageCandidate_new(id, tag, size, epoch) ==
    [id |-> id, tag |-> tag, size |-> size, epoch |-> epoch, paint_time |-> None]

\* ImageCandidate::paint_time: self.paint_time.unwrap_or(CrossProcessInstant::now())
paint_time_of(candidate, now) ==
    IF candidate.paint_time = None THEN now ELSE candidate.paint_time[1]

\* impl From<&ImageCandidate> for LargestContentfulPaint
From(candidate, now) ==
    [tag |-> candidate.tag, size |-> candidate.size,
     paint_time |-> paint_time_of(candidate, now)]

\* Option<&ImageCandidate>::map(|candidate| candidate.into())
MapInto(opt, now) == IF opt = None THEN None ELSE Some(From(opt[1], now))

\* #[derive(Default)] ImageLargestContentfulPaintCalculator
ImageCalculator_default == [candidates |-> <<>>, largest_image |-> None]

\* variant of Calculator_new: lcp starts as the result of a default candidate
Calculator_sentinel ==
    [image_calculator |-> ImageCalculator_default,
     lcp |-> Some([tag |-> 0, size |-> 0, paint_time |-> 0])]

\* the value ensure_lcp_calculator inserts
Calculator_new == [image_calculator |-> ImageCalculator_default, lcp |-> None]

\* variant of ensure_lcp_calculator: a missing calculator is inserted into a
\* new map
ensure_in_new_map(calcs, pipeline_id) ==
    IF pipeline_id \in DOMAIN calcs
    THEN calcs
    ELSE [q \in {pipeline_id} |-> Calculator_new]

\* LargestContentfulPaintDetector::ensure_lcp_calculator (entry().or_insert())
ensure_lcp_calculator(calcs, pipeline_id) ==
    IF pipeline_id \in DOMAIN calcs
    THEN calcs
    ELSE [q \in DOMAIN calcs \cup {pipeline_id} |->
            IF q = pipeline_id THEN Calculator_new ELSE calcs[q]]

\* -------------------------------------------- ImageLargestContentfulPaintCalculator

\* variant of Deferred: a candidate of the confirmed epoch itself is deferred
DeferredInclusive(candidate, cur_epoch) == candidate.epoch >= cur_epoch

\* `candidate.epoch() > cur_epoch`: the candidate is pushed back and skipped
Deferred(candidate, cur_epoch) == candidate.epoch > cur_epoch

\* variant of Replaces: the candidate resolved last always wins
ReplacesAlways(largest_image, candidate, now) == TRUE

\* variant of Replaces: only a strictly larger candidate wins
ReplacesLargerOnly(largest_image, candidate, now) ==
    largest_image.size < candidate.size

\* variant of Replaces: the later paint wins a tie
ReplacesLater(largest_image, candidate, now) ==
    \/ largest_image.size < candidate.size
    \/ /\ largest_image.size = candidate.size
       /\ paint_time_of(largest_image, now) < paint_time_of(candidate, now)

\* the replacement test of the fold; both operands carry a paint time here
Replaces(largest_image, candidate, now) ==
    \/ largest_image.size < candidate.size
    \/ /\ largest_image.size = candidate.size
       /\ paint_time_of(largest_image, now) > paint_time_of(candidate, now)

\* one iteration of `for mut candidate in candidates`; st carries self and
\* the ids stamped so far
LoopBody(st, candidate, paint_time, cur_epoch, now) ==
    IF Deferred(candidate, cur_epoch)
    THEN [st EXCEPT !.candidates = Append(@, candidate)]
    ELSE LET stamped == [candidate EXCEPT !.paint_time = Some(paint_time)]
             st1 == [st EXCEPT !.stamped = Append(@, candidate.id)]
         IN  IF st1.largest_image = None
             THEN [st1 EXCEPT !.largest_image = Some(stamped)]
             ELSE IF Replaces(st1.largest_image[1], stamped, now)
                  THEN [st1 EXCEPT !.largest_image = Some(stamped)]
                  ELSE st1

RECURSIVE Loop(_, _, _, _, _)
Loop(st, taken, paint_time, cur_epoch, now) ==
    IF taken = <<>>
    THEN st
    ELSE Loop(LoopBody(st, Head(taken), paint_time, cur_epoch, now),
              Tail(taken), paint_time, cur_epoch, now)

\* variant of Taken: the loop runs over a copy, self.candidates is not emptied
TakenCopy(self) == [taken |-> self.candidates, left |-> self.candidates]

\* std::mem::take(&mut self.candidates): what the loop iterates over, and
\* what self.candidates holds while it runs
Taken(self) == [taken |-> self.candidates, left |-> <<>>]

\* ImageLargestContentfulPaintCalculator::calculate_largest_contentful_paint:
\* the new self, the returned value and the ids of the candidates stamped
ImageCalculate(self, paint_time, cur_epoch, now) ==
    IF self.candidates = <<>>
    THEN [self |-> self, ret |-> MapInto(self.largest_image, now), stamped |-> <<>>]
    ELSE LET tk == Taken(self)
             st == Loop([candidates |-> tk.left, largest_image |-> self.largest_image,
                         stamped |-> <<>>],
                        tk.taken, paint_time, cur_epoch, now)
         IN  [self |-> [candidates |-> st.candidates, largest_image |-> st.largest_image],
              ret |-> MapInto(st.largest_image, now),
              stamped |-> st.stamped]

\* ------------------------------------------------ LargestContentfulPaintDetector

\* LargestContentfulPaintDetector::pick_largest_contentful_paint
pick_largest_contentful_paint(candidate1, candidate2) ==
    IF candidate2 = None THEN candidate1
    ELSE IF candidate1 = None THEN candidate2
    ELSE LET c1 == candidate1[1]
             c2 == candidate2[1]
         IN  IF c1.size > c2.size \/ (c1.size = c2.size /\ c1.paint_time <= c2.paint_time)
             THEN Some(c1)
             ELSE Some(c2)

\* variant of Unchanged: no gate, every call reports
NeverUnchanged(candidate, lcp) == FALSE

\* `if candidate == lcp_calculator.lcp { return None; }`
Unchanged(candidate, lcp) == candidate = lcp

\* the history after a calculate call (paint_time, epoch) stamped the ids in ids
Stamp(ids, paint_time, epoch) ==
    [i \in DOMAIN stamps |->
        stamps[i] \o [k \in 1..Cardinality({k \in DOMAIN ids : ids[k] = i}) |->
                        [paint_time |-> paint_time, epoch |-> epoch]]]

\* CrossProcessInstant::now() as read by ImageCandidate::paint_time: its value
\* is used only when the candidate converted carries no paint time
Clock(self) ==
    IF self.largest_image # None /\ self.largest_image[1].paint_time = None
    THEN Times
    ELSE {0}

\* variant of Pushed: the calculator is looked up before the record is examined
PushedEager(calcs, pipeline_id, candidates) ==
    LET ensured == ensure_lcp_calculator(calcs, pipeline_id)
    IN  IF candidates.image_candidate # None
        THEN [ensured EXCEPT ![pipeline_id].image_calculator.candidates =
                                Append(@, candidates.image_candidate[1])]
        ELSE ensured

\* the map after append_lcp_candidates: the calculator is looked up (and
\* inserted) only inside `if let Some(..) = candidates.image_candidate`
Pushed(calcs, pipeline_id, candidates) ==
    IF candidates.image_candidate # None
    THEN [ensure_lcp_calculator(calcs, pipeline_id)
            EXCEPT ![pipeline_id].image_calculator.candidates =
                      Append(@, candidates.image_candidate[1])]
    ELSE calcs

\* LargestContentfulPaintDetector::append_lcp_candidates
append_lcp_candidates(pipeline_id, candidates) ==
    /\ lcp_calculators' = Pushed(lcp_calculators, pipeline_id, candidates)
    /\ IF candidates.image_candidate # None
       THEN /\ created' = Append(created, [pipeline |-> pipeline_id,
                                           size |-> candidates.image_candidate[1].size,
                                           epoch |-> candidates.image_candidate[1].epoch])
            /\ stamps' = Append(stamps, <<>>)
       ELSE UNCHANGED <<created, stamps>>
    /\ result' = None
    /\ UNCHANGED <<emitted, painted>>

\* LargestContentfulPaintDetector::calculate_largest_contentful_paint
calculate_largest_contentful_paint(paint_time, epoch, pipeline_id) ==
    LET calcs == ensure_lcp_calculator(lcp_calculators, pipeline_id)
        lcp_calculator == calcs[pipeline_id]
    IN
    \E now \in Clock(lcp_calculator.image_calculator) :
    LET
        ic == ImageCalculate(lcp_calculator.image_calculator, paint_time, epoch, now)
        image_candidate == ic.ret
        candidate == pick_largest_contentful_paint(image_candidate, lcp_calculator.lcp)
    IN  /\ IF Unchanged(candidate, lcp_calculator.lcp)
           THEN /\ lcp_calculators' = [calcs EXCEPT ![pipeline_id].image_calculator = ic.self]
                /\ result' = None
                /\ UNCHANGED emitted
           ELSE /\ lcp_calculators' = [calcs EXCEPT ![pipeline_id].image_calculator = ic.self,
                                                    ![pipeline_id].lcp = candidate]
                /\ result' = candidate
                /\ emitted' = [emitted EXCEPT ![pipeline_id] = candidate]
        /\ stamps' = Stamp(ic.stamped, paint_time, epoch)
        /\ painted' = [painted EXCEPT ![pipeline_id] = Some(epoch)]
        /\ UNCHANGED created

\* ------------------------------------------------------------- specification

\* the threads that call wake
Wakers == {"w1", "w2"}

\* no headless event loop is running
NoLoop ==
    /\ flag = FALSE
    /\ mutex = "free"
    /\ loop_pc = "none"
    /\ waker_pc = [w \in Wakers |-> "idle"]
    /\ woken = FALSE

\* no layout pass is running: the collector's variables are unused
NoCollector ==
    /\ clip_tree = <<>>
    /\ scroll_tree = <<>>
    /\ viewport_size = None
    /\ current_scroll_node_id = None
    /\ current_clip_id = None
    /\ largerst_image = None
    /\ lcp_candidates = None
    /\ walk = None
    /\ seen = <<>>
    /\ handed = FALSE

\* the records a layout pass can hand over: empty, or one fresh candidate
Records ==
    {[image_candidate |-> None]} \cup
    {[image_candidate |-> Some(ImageCandidate_new(Len(created) + 1, tag, size, epoch))] :
        tag \in Tags, size \in Sizes, epoch \in Epochs}

\* LargestContentfulPaintDetector::new, before any call
Init ==
    /\ lcp_calculators = <<>>
    /\ result = None
    /\ created = <<>>
    /\ stamps = <<>>
    /\ emitted = [p \in Pipelines |-> None]
    /\ painted = [p \in Pipelines |-> None]
    /\ pc = 0
    /\ scenario = None
    /\ NoCollector
    /\ NoLoop

AppendCandidates ==
    /\ \E pipeline_id \in Pipelines, candidates \in Records :
          /\ candidates.image_candidate # None => Len(created) < MaxCandidates
          /\ append_lcp_candidates(pipeline_id, candidates)
    /\ UNCHANGED <<pc, scenario, collectorVars, loopVars>>

PaintCompleted ==
    /\ \E pipeline_id \in Pipelines, paint_time \in Times, epoch \in Epochs :
          calculate_largest_contentful_paint(paint_time, epoch, pipeline_id)
    /\ UNCHANGED <<pc, scenario, collectorVars, loopVars>>

Next == AppendCandidates \/ PaintCompleted

Spec == Init /\ [][Next]_vars

\* ------------------------------------------- the scripted end-to-end scenario

\* pipeline P of the scenario and its paint times, T1 < T2
Scenarios ==
    {[pipeline |-> p, T1 |-> t1, T2 |-> t2, T3 |-> t3] :
        p \in Pipelines, t1 \in Times, t2 \in Times, t3 \in Times}

\* passes 1..3 and their paint completions, in order
Script(sc) ==
    << [op |-> "append", candidate |-> [tag |-> 5, size |-> 100, epoch |-> 1]],
       [op |-> "calculate", paint_time |-> sc.T1, epoch |-> 1],
       [op |-> "append", candidate |-> [tag |-> 9, size |-> 50, epoch |-> 2]],
       [op |-> "calculate", paint_time |-> sc.T2, epoch |-> 2],
       [op |-> "append", candidate |-> [tag |-> 12, size |-> 200, epoch |-> 3]],
       [op |-> "calculate", paint_time |-> sc.T3, epoch |-> 3] >>

InitABC ==
    /\ lcp_calculators = <<>>
    /\ result = None
    /\ created = <<>>
    /\ stamps = <<>>
    /\ emitted = [p \in Pipelines |-> None]
    /\ painted = [p \in Pipelines |-> None]
    /\ pc = 1
    /\ scenario \in {sc \in Scenarios : sc.T1 < sc.T2}
    /\ NoCollector
    /\ NoLoop

\* the next call of the script, on the scenario's pipeline
ScenarioStep ==
    /\ pc \in DOMAIN Script(scenario)
    /\ LET step == Script(scenario)[pc]
       IN  IF step.op = "append"
           THEN append_lcp_candidates(
                    scenario.pipeline,
                    [image_candidate |->
                        Some(ImageCandidate_new(Len(created) + 1, step.candidate.tag,
                                                step.candidate.size, step.candidate.epoch))])
           ELSE calculate_largest_contentful_paint(step.paint_time, step.epoch,
                                                   scenario.pipeline)
    /\ pc' = pc + 1
    /\ UNCHANGED <<scenario, collectorVars, loopVars>>

\* calls for the other pipelines, interleaved with the script
OtherPipelineAppend ==
    /\ \E pipeline_id \in Pipelines \ {scenario.pipeline}, candidates \in Records :
          /\ candidates.image_candidate # None =>
                Cardinality({i \in DOMAIN created : created[i].pipeline = pipeline_id}) <
                    MaxCandidates - 1
          /\ append_lcp_candidates(pipeline_id, candidates)
    /\ UNCHANGED <<pc, scenario, collectorVars, loopVars>>

OtherPipelinePaintCompleted ==
    /\ \E pipeline_id \in Pipelines \ {scenario.pipeline},
          paint_time \in Times, epoch \in Epochs :
          calculate_largest_contentful_paint(paint_time, epoch, pipeline_id)
    /\ UNCHANGED <<pc, scenario, collectorVars, loopVars>>

NextABC == ScenarioStep \/ OtherPipelineAppend \/ OtherPipelinePaintCompleted

SpecABC == InitABC /\ [][NextABC]_vars

\* ------------------------------------------------------------------- helpers

Known(p) == p \in DOMAIN lcp_calculators
pending(p) == IF Known(p) THEN lcp_calculators[p].image_calculator.candidates ELSE <<>>
best_resolved(p) == IF Known(p) THEN lcp_calculators[p].image_calculator.largest_image ELSE None
last_reported(p) == IF Known(p) THEN lcp_calculators[p].lcp ELSE None

\* the value a resolve call returns for the pipeline: best_resolved as the
\* public result (best_resolved always carries a paint time)
Resolved(p) == MapInto(best_resolved(p), 0)

\* the ids of the candidates pending for p
PendingIds(p) == {pending(p)[k].id : k \in DOMAIN pending(p)}

\* the ids of the candidates of p that some resolve call has stamped
StampedIds(p) == {i \in DOMAIN created : created[i].pipeline = p /\ stamps[i] # <<>>}

\* candidate i of p was resolved by an earlier call than candidate j: it was
\* handed over first, for an earlier epoch, and the two stamps differ
ResolvedBefore(p, i, j) ==
    /\ i \in StampedIds(p) /\ j \in StampedIds(p)
    /\ i < j
    /\ created[i].epoch < created[j].epoch
    /\ stamps[i] # stamps[j]

\* ---------------------------------------------------------------------- C1
\* C1: for every pipeline, the sizes of the successive non-empty results of
\* calculate_largest_contentful_paint are non-decreasing, for the per-pipeline
\* calculator (the resolved value) and for the detector (a returned value is
\* at least as large as the previous non-empty one), and the stored
\* last-reported value, once set, stays set and its size never decreases.
MonotonicSize ==
    [][\A p \in Pipelines :
        /\ Resolved(p) # None =>
              /\ Resolved(p)' # None
              /\ Resolved(p)'[1].size >= Resolved(p)[1].size
        /\ last_reported(p) # None =>
              /\ last_reported(p)' # None
              /\ last_reported(p)'[1].size >= last_reported(p)[1].size
        /\ \A t \in Times, e \in Epochs :
              (calculate_largest_contentful_paint(t, e, p) /\ result' # None
                 /\ emitted[p] # None) =>
                  result'[1].size >= emitted[p][1].size]_vars

\* two non-empty results were returned for P, the second strictly larger
MonotonicSizeWitness ==
    /\ result # None
    /\ emitted["P"] = result
    /\ \E i, j \in DOMAIN created :
          /\ ResolvedBefore("P", i, j)
          /\ created[i].size < created[j].size
          /\ result[1].size = created[j].size

\* ---------------------------------------------------------------------- C4
\* C4: calculate_largest_contentful_paint returns a value only when it
\* differs from last_reported, and then stores it as last_reported; when it
\* returns nothing last_reported is unchanged; a call that resolves to the
\* same (tag, size, paint_time) as the previous call for the pipeline returns
\* nothing; no returned value equals the previous non-empty one.
ChangeGatedEmission ==
    [][\A p \in Pipelines, t \in Times, e \in Epochs :
        calculate_largest_contentful_paint(t, e, p) =>
            /\ result' # None =>
                  /\ result' # last_reported(p)
                  /\ result' # emitted[p]
                  /\ last_reported(p)' = result'
            /\ result' = None => last_reported(p)' = last_reported(p)
            /\ (painted[p] # None /\ Resolved(p)' = Resolved(p)) => result' = None]_vars

\* a second call for P resolved to the value the first one emitted, and
\* returned nothing
ChangeGatedEmissionWitness ==
    /\ result = None
    /\ pending("P") = <<>>
    /\ emitted["P"] # None
    /\ emitted["P"] = Resolved("P")
    /\ \E i, j \in DOMAIN created :
          /\ ResolvedBefore("P", i, j)
          /\ created[j].size < created[i].size
          /\ best_resolved("P")[1].id = i

\* ---------------------------------------------------------------------- C7
\* C7: on every step that changes a pipeline's best_resolved from a set
\* value old to new, new.size > old.size, or new.size = old.size and
\* new.paint_time <= old.paint_time.
BestResolvedReplacement ==
    [][\A p \in Pipelines :
        (best_resolved(p) # None /\ best_resolved(p)' # best_resolved(p)) =>
            /\ best_resolved(p)' # None
            /\ LET old == best_resolved(p)[1]
                   new == best_resolved(p)'[1]
               IN  \/ new.size > old.size
                   \/ /\ new.size = old.size
                      /\ new.paint_time # None /\ old.paint_time # None
                      /\ new.paint_time[1] <= old.paint_time[1]]_vars

\* best_resolved of P is the second candidate resolved, of the same size as
\* the first and painted earlier
BestResolvedReplacementWitness ==
    /\ best_resolved("P") # None
    /\ \E i \in StampedIds("P") :
          /\ ResolvedBefore("P", i, best_resolved("P")[1].id)
          /\ created[i].size = best_resolved("P")[1].size
          /\ stamps[i][1].paint_time > best_resolved("P")[1].paint_time[1]

\* ---------------------------------------------------------------------- C2
\* C2: a pending candidate of generation g is not stamped or folded by a
\* resolve call whose confirmed generation is below g, and stays pending (in
\* order, unstamped); the first resolve call whose confirmed generation is
\* >= g stamps and folds it and removes it from pending; no candidate is
\* folded more than once, and a candidate is pending exactly until then.
DeferralState ==
    \A i \in DOMAIN created :
        /\ Len(stamps[i]) <= 1
        /\ \A k \in DOMAIN stamps[i] : stamps[i][k].epoch >= created[i].epoch
        /\ (i \in PendingIds(created[i].pipeline)) <=> (stamps[i] = <<>>)

DeferralStep(p, t, e) ==
    LET old == pending(p)
        StaysPending(c) == c.epoch > e
    IN  /\ pending(p)' = SelectSeq(old, StaysPending)
        /\ \A k \in DOMAIN old :
              IF old[k].epoch > e
              THEN /\ stamps'[old[k].id] = <<>>
                   /\ best_resolved(p)' # None => best_resolved(p)'[1].id # old[k].id
              ELSE /\ stamps'[old[k].id] = <<[paint_time |-> t, epoch |-> e]>>
                   /\ old[k].id \notin PendingIds(p)'

GenerationDeferral ==
    /\ []DeferralState
    /\ [][\A p \in Pipelines, t \in Times, e \in Epochs :
            calculate_largest_contentful_paint(t, e, p) => DeferralStep(p, t, e)]_vars

\* a call for P stamped the candidate of epoch 1 and left the one of epoch 2
\* pending
GenerationDeferralWitness ==
    /\ painted["P"] = Some(1)
    /\ \E i \in StampedIds("P") : created[i].epoch = 1 /\ stamps[i][1].epoch = 1
    /\ \E k \in DOMAIN pending("P") : pending("P")[k].epoch = 2

\* ---------------------------------------------------------------------- C3
\* C3: of the resolved candidates of the reported size, the resolved result
\* and the last reported value carry the earliest paint time: given two
\* candidates of equal size resolved with paint times t1 < t2, the result
\* after both reports t1, not t2, in either order of resolution.
TieBreakStability ==
    \A p \in Pipelines :
        StampedIds(p) # {} =>
            /\ Resolved(p) # None
            /\ last_reported(p) # None
            /\ \A r \in {Resolved(p)[1], last_reported(p)[1]} :
                  /\ \E i \in StampedIds(p) :
                        created[i].size = r.size /\ stamps[i][1].paint_time = r.paint_time
                  /\ \A i \in StampedIds(p) :
                        created[i].size = r.size => r.paint_time <= stamps[i][1].paint_time

\* the resolve call carrying t1 came after the one carrying t2, and t1 is
\* reported
TieBreakStabilityWitness ==
    \E i, j \in DOMAIN created :
        /\ ResolvedBefore("P", i, j)
        /\ created[i].size = created[j].size
        /\ stamps[j][1].paint_time < stamps[i][1].paint_time
        /\ last_reported("P") # None
        /\ last_reported("P")[1].size = created[j].size
        /\ last_reported("P")[1].paint_time = stamps[j][1].paint_time

\* ---------------------------------------------------------------------- C5
\* C5 as stated: in every state, every pending candidate of a pipeline has a
\* generation above the epoch of the pipeline's most recent
\* calculate_largest_contentful_paint call.
PendingAbovePainted ==
    \A p \in Pipelines :
        painted[p] # None =>
            \A k \in DOMAIN pending(p) : pending(p)[k].epoch > painted[p][1]

\* C5 as amended: right after every calculate_largest_contentful_paint call,
\* every pending candidate of that pipeline has a generation above the epoch
\* of the call; append_lcp_candidates appends whatever the generation is.
PendingAbovePaintedAfterResolve ==
    [][\A p \in Pipelines, t \in Times, e \in Epochs :
        calculate_largest_contentful_paint(t, e, p) =>
            \A k \in DOMAIN pending(p)' : pending(p)'[k].epoch > e]_vars

\* a call for epoch 1 resolved one candidate of P and left a later one pending
PendingAbovePaintedWitness ==
    /\ painted["P"] = Some(1)
    /\ StampedIds("P") # {}
    /\ pending("P") # <<>>
    /\ \A k \in DOMAIN pending("P") : pending("P")[k].epoch > 1

\* ---------------------------------------------------------------------- C6
\* C6: a candidate is unstamped (paint_time = None) while pending, is stamped
\* at most once, and a stamp once made is never changed: best_resolved keeps
\* the paint time of the one call that resolved it.
StampedOnceState ==
    /\ \A i \in DOMAIN stamps : Len(stamps[i]) <= 1
    /\ \A p \in Pipelines :
          /\ \A k \in DOMAIN pending(p) : pending(p)[k].paint_time = None
          /\ best_resolved(p) # None =>
                /\ Len(stamps[best_resolved(p)[1].id]) = 1
                /\ best_resolved(p)[1].paint_time =
                      Some(stamps[best_resolved(p)[1].id][1].paint_time)

StampedOnceStep ==
    /\ \A i \in DOMAIN stamps : stamps[i] # <<>> => stamps'[i] = stamps[i]
    /\ \A p \in Pipelines :
          (best_resolved(p) # None /\ best_resolved(p)' # None
              /\ best_resolved(p)'[1].id = best_resolved(p)[1].id) =>
                best_resolved(p)'[1].paint_time = best_resolved(p)[1].paint_time

NeverStampedTwice == []StampedOnceState /\ [][StampedOnceStep]_vars

\* best_resolved of P went through a later resolve call, at another paint
\* time, and kept its stamp
NeverStampedTwiceWitness ==
    /\ best_resolved("P") # None
    /\ \E j \in DOMAIN created :
          /\ ResolvedBefore("P", best_resolved("P")[1].id, j)
          /\ stamps[j][1].paint_time # best_resolved("P")[1].paint_time[1]

\* ---------------------------------------------------------------------- C8
\* C8: on a fresh pipeline P, append (tag 5, size 100, generation 1) then
\* paint completion for generation 1 at T1 returns {5, 100, T1}; append
\* (9, 50, 2) then paint completion for generation 2 at T2 > T1 returns
\* nothing; append (12, 200, 3) then paint completion for generation 3 at T3
\* returns {12, 200, T3}.
ScenarioABC ==
    [][ScenarioStep =>
        /\ pc = 2 => result' = Some([tag |-> 5, size |-> 100, paint_time |-> scenario.T1])
        /\ pc = 4 => result' = None
        /\ pc = 6 => result' = Some([tag |-> 12, size |-> 200, paint_time |-> scenario.T3])]_vars

\* the script has run to its end, with T3 before T2, and the largest image is
\* what P last reported
ScenarioABCWitness ==
    /\ pc = 7
    /\ scenario.T3 < scenario.T2
    /\ last_reported(scenario.pipeline) =
          Some([tag |-> 12, size |-> 200, paint_time |-> scenario.T3])
    /\ pending(scenario.pipeline) = <<>>

\* ---------------------------------------------------------------------- C9
\* C9: append_lcp_candidates with a record that carries a candidate appends
\* exactly that candidate at the end of the pipeline's pending queue,
\* creating the pipeline's state if absent, and changes nothing else; with an
\* empty record it changes nothing and creates no pipeline state.
AppendEffect ==
    [][\A p \in Pipelines, r \in Records :
        append_lcp_candidates(p, r) =>
            IF r.image_candidate # None
            THEN /\ Known(p)'
                 /\ pending(p)' = Append(pending(p), r.image_candidate[1])
                 /\ best_resolved(p)' = best_resolved(p)
                 /\ last_reported(p)' = last_reported(p)
                 /\ \A q \in Pipelines \ {p} :
                       /\ Known(q)' <=> Known(q)
                       /\ Known(q) => lcp_calculators'[q] = lcp_calculators[q]
            ELSE /\ lcp_calculators' = lcp_calculators
                 /\ \A q \in Pipelines : Known(q)' <=> Known(q)]_vars

\* two appends created P's state and queued their candidates in order; Q,
\* which got at most empty records, has no state
AppendEffectWitness ==
    /\ Known("P") /\ ~Known("Q")
    /\ painted = [p \in Pipelines |-> None]
    /\ Len(pending("P")) = 2
    /\ pending("P")[1].id = 1 /\ pending("P")[2].id = 2

\* --------------------------------------------------------------------- C10
\* C10: calculate_largest_contentful_paint for a pipeline the detector has
\* no state for creates state with no pending candidate, no best_resolved
\* and no last_reported, and returns nothing.
UnknownPipelineResolve ==
    [][\A p \in Pipelines, t \in Times, e \in Epochs :
        (~Known(p) /\ calculate_largest_contentful_paint(t, e, p)) =>
            /\ Known(p)'
            /\ pending(p)' = <<>>
            /\ best_resolved(p)' = None
            /\ last_reported(p)' = None
            /\ result' = None]_vars

\* P's state exists though no candidate was ever handed over: a paint
\* completion created it
UnknownPipelineResolveWitness ==
    /\ created = <<>>
    /\ Known("P")
    /\ painted["P"] # None
    /\ pending("P") = <<>> /\ best_resolved("P") = None /\ last_reported("P") = None
    /\ result = None

\* --------------------------------------------------------------------- C14
\* C14: a resolve call in which no pending candidate has generation <= the
\* confirmed generation leaves best_resolved unchanged and pending with the
\* same candidates in the same order, stamps nothing, resolves to the value
\* resolved before, and the detector returns nothing.
NothingQualifies ==
    [][\A p \in Pipelines, t \in Times, e \in Epochs :
        ((\A k \in DOMAIN pending(p) : pending(p)[k].epoch > e)
            /\ calculate_largest_contentful_paint(t, e, p)) =>
            /\ best_resolved(p)' = best_resolved(p)
            /\ pending(p)' = pending(p)
            /\ \A k \in DOMAIN pending(p)' : pending(p)'[k].paint_time = None
            /\ stamps' = stamps
            /\ Resolved(p)' = Resolved(p)
            /\ result' = None]_vars

\* the last call for P confirmed epoch 1 after an earlier call had resolved a
\* candidate for epoch 2: nothing qualified, a candidate is still pending
NothingQualifiesWitness ==
    /\ painted["P"] = Some(1)
    /\ \E i \in StampedIds("P") : stamps[i][1].epoch = 2
    /\ best_resolved("P") # None
    /\ pending("P") # <<>>
    /\ result = None

\* --------------------------------------------------------------------- C15
\* C15: a call for pipeline p changes nothing of any other pipeline q (its
\* state exists or not as before, with the same pending queue, best_resolved
\* and last_reported), and what a calculate call for q returns is what the
\* same call returns on a detector that holds q's calculator only; so the
\* results returned for q do not depend on the calls for p interleaved.
OthersUntouched(p) ==
    \A q \in Pipelines \ {p} :
        /\ Known(q)' <=> Known(q)
        /\ Known(q) => lcp_calculators'[q] = lcp_calculators[q]
        /\ emitted'[q] = emitted[q]

ResultAlone(q, t, e) ==
    LET alone == [x \in DOMAIN lcp_calculators \cap {q} |-> lcp_calculators[x]]
        calc == ensure_lcp_calculator(alone, q)[q]
        ic == ImageCalculate(calc.image_calculator, t, e, 0)
        candidate == pick_largest_contentful_paint(ic.ret, calc.lcp)
    IN  IF candidate = calc.lcp THEN None ELSE candidate

PipelineIndependence ==
    [][\A p \in Pipelines :
        /\ \A r \in Records : append_lcp_candidates(p, r) => OthersUntouched(p)
        /\ \A t \in Times, e \in Epochs :
              calculate_largest_contentful_paint(t, e, p) =>
                  /\ OthersUntouched(p)
                  /\ result' = ResultAlone(p, t, e)]_vars

\* calls for P and Q were interleaved: Q's candidate was handed over between
\* P's and resolved, and both pipelines have reported
PipelineIndependenceWitness ==
    /\ emitted["P"] # None /\ emitted["Q"] # None
    /\ Len(created) = 2
    /\ created[1].pipeline = "P" /\ created[2].pipeline = "Q"
    /\ stamps[1] # <<>> /\ stamps[2] # <<>>
    /\ stamps[1][1].paint_time > stamps[2][1].paint_time
    /\ result = emitted["P"]

\* --------------------------------------------------------------------- C19
\* C19: whenever a pipeline's best_resolved is set (it is set by a
\* calculate_largest_contentful_paint call), last_reported is best_resolved
\* as the public result, with the same tag, size and paint time; the pick
\* between the resolved value and last_reported never keeps another value.
LastReportedIsBestResolved ==
    \A p \in Pipelines :
        best_resolved(p) # None =>
            /\ best_resolved(p)[1].paint_time # None
            /\ last_reported(p) =
                  Some([tag |-> best_resolved(p)[1].tag,
                        size |-> best_resolved(p)[1].size,
                        paint_time |-> best_resolved(p)[1].paint_time[1]])

\* a second call replaced best_resolved of P by a larger candidate, and
\* last_reported followed
LastReportedIsBestResolvedWitness ==
    /\ best_resolved("P") # None
    /\ painted["P"] # None
    /\ \E i \in StampedIds("P") :
          /\ ResolvedBefore("P", i, best_resolved("P")[1].id)
          /\ created[i].size < best_resolved("P")[1].size
    /\ last_reported("P")[1].tag = best_resolved("P")[1].tag

\* ===========================================================================
\* The layout-side collector
\* (components/layout/display_list/largest_contenful_paint_collector.rs)
\* ===========================================================================

\* ------------------------------------------------------------------ bounds
Unit == 2               \* coordinates count 1/Unit of a pixel
MaxCoord == 3           \* rectangle coordinates are 0..MaxCoord (in 1/Unit pixels)
MaxScrollNodes == 2     \* scroll tree nodes are 1..MaxScrollNodes
MaxClips == 2           \* clip tree nodes are 1..MaxClips
MaxCalls == 2           \* record_image_candidate calls in one layout pass

\* ---------------------------------------------------------------- rectangles

\* LayoutRect: a box given by its min and max corners
Box(x0, y0, x1, y1) == [x0 |-> x0, y0 |-> y0, x1 |-> x1, y1 |-> y1]

Min(a, b) == IF a < b THEN a ELSE b
Max(a, b) == IF a > b THEN a ELSE b

\* LayoutRect::zero()
zero == Box(0, 0, 0, 0)

\* LayoutRect::from_size
from_size(size) == Box(0, 0, size.width, size.height)

\* Box2D::is_empty: not (max.x > min.x and max.y > min.y)
is_empty(rect) == ~(rect.x1 > rect.x0 /\ rect.y1 > rect.y0)

\* Box2D::intersection: None when the common part is empty
intersection(a, b) ==
    LET c == Box(Max(a.x0, b.x0), Max(a.y0, b.y0), Min(a.x1, b.x1), Min(a.y1, b.y1))
    IN  IF is_empty(c) THEN None ELSE Some(c)

\* Option::unwrap_or
unwrap_or(opt, default) == IF opt = None THEN default ELSE opt[1]

\* Box2D::translate
translate(rect, v) == Box(rect.x0 + v.x, rect.y0 + v.y, rect.x1 + v.x, rect.y1 + v.y)

\* Box2D::area, in 1/Unit^2 of a square pixel
area(rect) == (rect.x1 - rect.x0) * (rect.y1 - rect.y0)

\* "visual_rect.area() as usize": the float area cut down to whole square
\* pixels (a negative float casts to 0)
as_usize(a) == IF a < 0 THEN 0 ELSE a \div (Unit * Unit)

\* Transform3D::outer_transformed_box2d for the transforms of the model:
\* the identity, a uniform scale by two, a mirror about the y axis, and a
\* transform under which the box has no bounding box
outer_transformed_box2d(transform, rect) ==
    CASE transform = "identity" -> Some(rect)
      [] transform = "double"   -> Some(Box(2 * rect.x0, 2 * rect.y0, 2 * rect.x1, 2 * rect.y1))
      [] transform = "mirror"   -> Some(Box(0 - rect.x1, rect.y0, 0 - rect.x0, rect.y1))
      [] OTHER                  -> None

\* ------------------------------------------------------- clip and scroll trees

\* ClipId::INVALID; the clips of the store are 1..MaxClips
ClipId_INVALID == 0

\* StackingContextTreeClipStore::get_node
clip_tree_get_node(clip_id) ==
    IF clip_id \in DOMAIN clip_tree THEN Some(clip_tree[clip_id]) ELSE None

\* ScrollTree::get_node
scroll_tree_get_node(scroll_id) == scroll_tree[scroll_id]

\* ------------------------------------------------------- the geometry composer

\* apply_clip_to_visual_rect: the clipped rectangle and the next clip id
apply_clip_to_visual_rect(rect, clip_node) ==
    IF clip_node.id = ClipId_INVALID
    THEN [rect |-> rect, parent_clip_id |-> clip_node.id]
    ELSE [rect |-> unwrap_or(intersection(clip_node.rect, rect), zero),
          parent_clip_id |-> clip_node.parent_clip_id]

\* variant of apply_transform_to_visual_rect: the parent link is dropped
apply_transform_no_parent(rect, scroll_id) ==
    [rect |-> rect, parent_scroll_id |-> None]

\* apply_transform_to_visual_rect: the transformed rectangle and the parent
\* scroll node
apply_transform_to_visual_rect(rect, scroll_id) ==
    LET scroll_node == scroll_tree_get_node(scroll_id)
        visual_rect ==
            IF scroll_node.info.kind = "ReferenceFrame"
            THEN LET outer_rect == outer_transformed_box2d(scroll_node.info.transform, rect)
                 IN  IF outer_rect # None
                     THEN translate(outer_rect[1], scroll_node.info.origin)
                     ELSE zero
            ELSE rect
    IN  [rect |-> visual_rect, parent_scroll_id |-> scroll_node.parent]

\* compute_visual_rect_with_scroll_clip; steps is the history of the walk
\* (one entry per scroll node processed), not part of the program
RECURSIVE compute_visual_rect_with_scroll_clip(_, _, _, _)
compute_visual_rect_with_scroll_clip(rect, scroll_id, clip_id, steps) ==
    IF scroll_id = None
    THEN [rect |-> rect, steps |-> steps]
    ELSE LET node == clip_tree_get_node(clip_id)
             clip_node == IF node # None /\ node[1].parent_scroll_node_id = scroll_id[1]
                          THEN node ELSE None
             clipped == IF clip_node # None
                        THEN apply_clip_to_visual_rect(rect, clip_node[1])
                        ELSE [rect |-> rect, parent_clip_id |-> clip_id]
             moved == apply_transform_to_visual_rect(clipped.rect, scroll_id[1])
             steps1 == Append(steps, [scroll_id |-> scroll_id[1], clip_id |-> clip_id,
                                      clipped |-> clip_node # None, rect |-> moved.rect])
         IN  IF is_empty(moved.rect)
             THEN [rect |-> moved.rect, steps |-> steps1]
             ELSE compute_visual_rect_with_scroll_clip(
                      moved.rect, moved.parent_scroll_id, clipped.parent_clip_id, steps1)

\* variant of compute_visual_rect: the viewport is not applied
compute_visual_rect_unclamped(rect) ==
    LET visual == compute_visual_rect_with_scroll_clip(
                      rect, Some(current_scroll_node_id), current_clip_id, <<>>)
    IN  [rect |-> visual.rect, steps |-> visual.steps]

\* compute_visual_rect
compute_visual_rect(rect) ==
    LET visual == compute_visual_rect_with_scroll_clip(
                      rect, Some(current_scroll_node_id), current_clip_id, <<>>)
        viewport == from_size(viewport_size)
    IN  [rect |-> unwrap_or(intersection(visual.rect, viewport), zero),
         steps |-> visual.steps]


\* --------------------------------------------------------------- the collector

\* variant of Larger: a candidate of equal size replaces the held one
LargerOrEqual(largest_image, size) == largest_image.size <= size

\* the comparison of record_image_candidate: largest_image.size() < size
Larger(largest_image, size) == largest_image.size < size

\* variant of take: the held candidate stays in the collector
take_copy(opt) == [value |-> opt, left |-> opt]

\* Option::take: the value moved out and what is left behind
take(opt) == [value |-> opt, left |-> None]

\* LargestContentfulPaintCollector::update_current_node_id
update_current_node_id(next_scroll_node_id, next_clip_id) ==
    /\ current_scroll_node_id' = next_scroll_node_id
    /\ current_clip_id' = next_clip_id
    /\ UNCHANGED <<clip_tree, scroll_tree, viewport_size, largerst_image,
                   lcp_candidates, walk, seen, handed>>

\* LargestContentfulPaintCollector::record_image_candidate; the candidate's
\* id is the number of the call in the pass, and the first call after a
\* hand-over starts the next pass
record_image_candidate(tag, rect, epoch) ==
    LET visual_rect == compute_visual_rect(rect).rect
        size == as_usize(area(visual_rect))
        calls == IF handed THEN <<>> ELSE seen
        id == Len(calls) + 1
    IN  /\ IF size = 0
           THEN UNCHANGED largerst_image
           ELSE IF largerst_image # None
                THEN IF Larger(largerst_image[1], size)
                     THEN largerst_image' = Some(ImageCandidate_new(id, tag, size, epoch))
                     ELSE UNCHANGED largerst_image
                ELSE largerst_image' = Some(ImageCandidate_new(id, tag, size, epoch))
        /\ seen' = Append(calls, [tag |-> tag, epoch |-> epoch,
                                  area |-> area(visual_rect), size |-> size])
        /\ handed' = FALSE
        /\ UNCHANGED <<clip_tree, scroll_tree, viewport_size, current_scroll_node_id,
                       current_clip_id, lcp_candidates, walk>>

\* LargestContentfulPaintCollector::update_largest_contentful_paint_candiate;
\* the pass ends here (a pass that follows a hand-over without a call has
\* no calls)
update_largest_contentful_paint_candiate ==
    /\ lcp_candidates' = [image_candidate |-> take(largerst_image).value]
    /\ largerst_image' = take(largerst_image).left
    /\ seen' = IF handed THEN <<>> ELSE seen
    /\ handed' = TRUE
    /\ UNCHANGED <<clip_tree, scroll_tree, viewport_size, current_scroll_node_id,
                   current_clip_id, walk>>

\* the call of compute_visual_rect in record_image_candidate, on its own
measure(rect) ==
    /\ walk' = [rect |-> rect, scroll_id |-> current_scroll_node_id,
                clip_id |-> current_clip_id,
                steps |-> compute_visual_rect(rect).steps,
                visual_rect |-> compute_visual_rect(rect).rect]
    /\ UNCHANGED <<clip_tree, scroll_tree, viewport_size, current_scroll_node_id,
                   current_clip_id, largerst_image, lcp_candidates, seen, handed>>

\* ----------------------------------------------- specification of the composer

ScrollIds == 1..MaxScrollNodes
ClipIds == 1..MaxClips

\* the rectangles of image fragments
Rects ==
    {Box(x0, 0, x1, y1) : x0 \in 0..MaxCoord, x1 \in 0..MaxCoord, y1 \in {Unit, MaxCoord}}
        \ {r \in [x0 : 0..MaxCoord, y0 : {0}, x1 : 0..MaxCoord, y1 : {Unit, MaxCoord}] :
              r.x1 < r.x0}

\* the rectangles of clips: the left and the right part of the page
ClipRects == {Box(0, 0, Unit, MaxCoord), Box(Unit, 0, MaxCoord, MaxCoord)}

\* what a scroll tree node can be: a scroll frame, or a reference frame that
\* shifts, scales, or has no bounding box for the rectangle
ScrollInfos ==
    {[kind |-> "Scroll", transform |-> "identity", origin |-> [x |-> 0, y |-> 0]],
     [kind |-> "ReferenceFrame", transform |-> "identity", origin |-> [x |-> 1, y |-> 0]],
     [kind |-> "ReferenceFrame", transform |-> "double", origin |-> [x |-> 0, y |-> 0]],
     [kind |-> "ReferenceFrame", transform |-> "degenerate", origin |-> [x |-> 0, y |-> 0]]}

\* scroll trees: a node's parent is an earlier node or none
ScrollTrees ==
    {t \in [ScrollIds -> [parent : {None} \cup {Some(n) : n \in ScrollIds},
                          info : ScrollInfos]] :
        \A n \in ScrollIds : t[n].parent # None => t[n].parent[1] < n}

\* clip stores: a clip's parent is an earlier clip or INVALID
ClipTrees ==
    {c \in [ClipIds -> [id : ClipIds, rect : ClipRects,
                        parent_clip_id : {ClipId_INVALID} \cup ClipIds,
                        parent_scroll_node_id : ScrollIds]] :
        \A n \in ClipIds : c[n].id = n /\ c[n].parent_clip_id < n}

\* the scroll nodes from scroll_id up to its root
RECURSIVE ScrollPath(_)
ScrollPath(scroll_id) ==
    IF scroll_tree[scroll_id].parent = None
    THEN <<scroll_id>>
    ELSE <<scroll_id>> \o ScrollPath(scroll_tree[scroll_id].parent[1])

\* scroll node a is scroll_id or one of its ancestors
OnPath(a, scroll_id) == \E k \in DOMAIN ScrollPath(scroll_id) : ScrollPath(scroll_id)[k] = a

\* the display list builder nests clips along the scroll tree: the parent of
\* a clip is attached to the clip's scroll node or to one of its ancestors
WellNested(clips) ==
    \A n \in DOMAIN clips :
        clips[n].parent_clip_id # ClipId_INVALID =>
            OnPath(clips[clips[n].parent_clip_id].parent_scroll_node_id,
                   clips[n].parent_scroll_node_id)

\* the positions of the builder: a scroll node, and no clip or a clip attached
\* to that scroll node or to one of its ancestors
Positions ==
    {pos \in [scroll_id : ScrollIds, clip_id : {ClipId_INVALID} \cup ClipIds] :
        pos.clip_id # ClipId_INVALID =>
            OnPath(clip_tree[pos.clip_id].parent_scroll_node_id, pos.scroll_id)}

\* the detector is not part of a layout pass
NoDetector ==
    /\ lcp_calculators = <<>>
    /\ result = None
    /\ created = <<>>
    /\ stamps = <<>>
    /\ emitted = [p \in Pipelines |-> None]
    /\ painted = [p \in Pipelines |-> None]
    /\ pc = 0
    /\ scenario = None

detectorVars == <<lcp_calculators, result, created, stamps, emitted, painted, pc, scenario>>

InitGeometry ==
    /\ NoDetector
    /\ scroll_tree \in ScrollTrees
    /\ clip_tree \in {clips \in ClipTrees : WellNested(clips)}
    /\ viewport_size = [width |-> MaxCoord, height |-> MaxCoord]
    /\ \E pos \in Positions :
          /\ current_scroll_node_id = pos.scroll_id
          /\ current_clip_id = pos.clip_id
    /\ largerst_image = None
    /\ lcp_candidates = [image_candidate |-> None]
    /\ walk = None
    /\ seen = <<>>
    /\ handed = FALSE
    /\ NoLoop

Measure ==
    /\ \E rect \in Rects : measure(rect)
    /\ UNCHANGED <<detectorVars, loopVars>>

NextGeometry == Measure

SpecGeometry == InitGeometry /\ [][NextGeometry]_vars


\* ------------------------------------------------------ claims on the composer

\* the clips on the ancestor chain of clip_id, itself included
RECURSIVE ClipChain(_)
ClipChain(clip_id) ==
    IF clip_id \notin DOMAIN clip_tree
    THEN {}
    ELSE {clip_id} \cup ClipChain(clip_tree[clip_id].parent_clip_id)

\* the rectangle as the transforms of path[1..k-1] carry it to scroll node path[k]
RECURSIVE Carried(_, _, _)
Carried(rect, path, k) ==
    IF k = 1
    THEN rect
    ELSE apply_transform_to_visual_rect(Carried(rect, path, k - 1), path[k - 1]).rect

\* the rectangle of the last measurement lies fully outside clip c, seen in
\* the coordinates of the scroll node the clip is attached to
OutsideClip(c) ==
    LET path == ScrollPath(walk.scroll_id)
    IN  \E k \in DOMAIN path :
            /\ path[k] = clip_tree[c].parent_scroll_node_id
            /\ intersection(clip_tree[c].rect, Carried(walk.rect, path, k)) = None

\* C13: a rectangle that lies fully outside the rectangle of any clip on the
\* ancestor chain of its starting clip node composes to a zero-area visible
\* rectangle, whatever the transforms of the scroll nodes, also when several
\* clips of the chain are attached to the same scroll node.
ClippedOutIsInvisible ==
    walk # None =>
        \A c \in ClipChain(walk.clip_id) :
            OutsideClip(c) => is_empty(walk.visual_rect)

\* C16: the visible rectangle is the zero rectangle or a non-empty rectangle
\* inside the viewport rectangle anchored at the origin, so its size is at
\* most the viewport's area.
VisualRectInViewport ==
    walk # None =>
        LET r == walk.visual_rect
            viewport == from_size(viewport_size)
        IN  /\ \/ r = zero
               \/ /\ ~is_empty(r)
                  /\ viewport.x0 <= r.x0 /\ r.x1 <= viewport.x1
                  /\ viewport.y0 <= r.y0 /\ r.y1 <= viewport.y1
            /\ as_usize(area(r)) * Unit * Unit <= area(viewport)

\* a measurement whose composed rectangle reaches beyond the viewport and is
\* cut down to its visible part
VisualRectInViewportWitness ==
    /\ walk # None
    /\ walk.visual_rect # zero
    /\ compute_visual_rect_with_scroll_clip(
           walk.rect, Some(walk.scroll_id), walk.clip_id, <<>>).rect # walk.visual_rect
    /\ as_usize(area(walk.visual_rect)) > 0

\* C17: the walk visits the scroll nodes from the starting one towards the
\* root, each step moving to the parent; it ends after a node with no parent,
\* or earlier, at the first node that leaves the rectangle with zero area.
WalkEndsAtRootOrZero ==
    walk # None =>
        LET path == ScrollPath(walk.scroll_id)
            steps == walk.steps
        IN  /\ Len(steps) \in 1..Len(path)
            /\ Len(steps) <= MaxScrollNodes
            /\ \A k \in DOMAIN steps : steps[k].scroll_id = path[k]
            /\ \A k \in DOMAIN steps : k < Len(steps) => ~is_empty(steps[k].rect)
            /\ \/ is_empty(steps[Len(steps)].rect)
               \/ scroll_tree[steps[Len(steps)].scroll_id].parent = None

\* a walk of a non-empty rectangle that ends before the root because the
\* rectangle became zero-area
WalkEndsAtRootOrZeroWitness ==
    /\ walk # None
    /\ ~is_empty(walk.rect)
    /\ Len(walk.steps) < Len(ScrollPath(walk.scroll_id))
    /\ is_empty(walk.steps[Len(walk.steps)].rect)


\* ---------------------------------------------- specification of the collector

\* one page: a chain of scroll frames, the left part of the page clipped on
\* the root, the right part on the other scroll nodes
InitCollector ==
    /\ NoDetector
    /\ scroll_tree = [n \in ScrollIds |->
                        [parent |-> IF n = 1 THEN None ELSE Some(n - 1),
                         info |-> [kind |-> "Scroll", transform |-> "identity",
                                   origin |-> [x |-> 0, y |-> 0]]]]
    /\ clip_tree = [n \in ClipIds |->
                      [id |-> n,
                       rect |-> IF n = 1 THEN Box(0, 0, Unit, MaxCoord)
                                         ELSE Box(Unit, 0, MaxCoord, MaxCoord),
                       parent_clip_id |-> ClipId_INVALID,
                       parent_scroll_node_id |-> Min(n, MaxScrollNodes)]]
    /\ viewport_size = [width |-> MaxCoord, height |-> MaxCoord]
    /\ current_scroll_node_id = 1
    /\ current_clip_id = ClipId_INVALID
    /\ largerst_image = None
    /\ lcp_candidates = [image_candidate |-> None]
    /\ walk = None
    /\ seen = <<>>
    /\ handed = FALSE
    /\ NoLoop

UpdateCurrentNode ==
    /\ \E pos \in Positions : update_current_node_id(pos.scroll_id, pos.clip_id)
    /\ UNCHANGED <<detectorVars, loopVars>>

RecordImageCandidate ==
    /\ handed \/ Len(seen) < MaxCalls
    /\ \E tag \in Tags, rect \in Rects, epoch \in Epochs :
          record_image_candidate(tag, rect, epoch)
    /\ UNCHANGED <<detectorVars, loopVars>>

HandOver ==
    /\ update_largest_contentful_paint_candiate
    /\ UNCHANGED <<detectorVars, loopVars>>

NextCollector == UpdateCurrentNode \/ RecordImageCandidate \/ HandOver

SpecCollector == InitCollector /\ [][NextCollector]_vars


\* ----------------------------------------------------- claims on the collector

\* the calls of the pass that count under a measure of the call (its exact
\* area, or its size in whole square pixels)
Counted(measure_of(_)) == {i \in DOMAIN seen : measure_of(seen[i]) > 0}

\* the first call of largest measure among the counted ones
Best(measure_of(_)) ==
    CHOOSE i \in Counted(measure_of) :
        \A j \in Counted(measure_of) :
            \/ measure_of(seen[j]) < measure_of(seen[i])
            \/ measure_of(seen[j]) = measure_of(seen[i]) /\ i <= j

\* held is the candidate of the best call under the measure, or nothing when
\* no call counts
HoldsBest(held, measure_of(_)) ==
    IF Counted(measure_of) = {}
    THEN held = None
    ELSE /\ held # None
         /\ held[1].id = Best(measure_of)
         /\ held[1].tag = seen[Best(measure_of)].tag
         /\ held[1].epoch = seen[Best(measure_of)].epoch
         /\ held[1].size = seen[Best(measure_of)].size
         /\ held[1].paint_time = None

AreaOf(call) == call.area
SizeOf(call) == call.size

\* C11 as stated: after the calls of a pass and the hand-over, the record
\* holds the candidate of largest visible area among the calls whose visible
\* area is not zero, the first one on ties, with the tag and epoch of its
\* call; it is empty when no call had a non-zero area.
LargestAreaOfPass ==
    /\ handed => HoldsBest(lcp_candidates.image_candidate, AreaOf)
    /\ ~handed => HoldsBest(largerst_image, AreaOf)

\* C11, amended: the same with the size of a call, its visible area cut down
\* to whole square pixels, in place of the area: the record holds the first
\* candidate of largest size among the calls whose size is not zero, and a
\* call of size zero changes nothing.
LargestSizeOfPass ==
    /\ handed => HoldsBest(lcp_candidates.image_candidate, SizeOf)
    /\ ~handed => HoldsBest(largerst_image, SizeOf)

\* a pass handed over after two calls of the same size and different areas,
\* the larger area second: the record holds the first
LargestSizeOfPassWitness ==
    /\ handed
    /\ Len(seen) = 2
    /\ seen[1].size = seen[2].size
    /\ seen[1].size > 0
    /\ seen[1].area < seen[2].area
    /\ lcp_candidates.image_candidate # None
    /\ lcp_candidates.image_candidate[1].id = 1

\* what holds of the collector between its calls
HandOverState ==
    /\ handed => largerst_image = None
    /\ handed /\ (\A i \in DOMAIN seen : seen[i].size = 0) =>
           lcp_candidates.image_candidate = None
    /\ ~handed /\ largerst_image # None =>
           /\ largerst_image[1].id \in DOMAIN seen
           /\ largerst_image[1].size = seen[largerst_image[1].id].size
           /\ largerst_image[1].tag = seen[largerst_image[1].id].tag
           /\ largerst_image[1].epoch = seen[largerst_image[1].id].epoch

\* C12: the hand-over moves the held candidate, if any, into the record and
\* leaves the collector holding none; the candidate held during a pass is one
\* of that pass, whatever the pass before handed over; a pass without a
\* qualifying image hands over an empty record.
HandOverEmptiesCollector ==
    /\ []HandOverState
    /\ [][update_largest_contentful_paint_candiate =>
             /\ lcp_candidates'.image_candidate = largerst_image
             /\ largerst_image' = None]_vars

\* in the pass after a hand-over of a candidate, the collector holds a
\* smaller candidate of the new pass
HandOverEmptiesCollectorWitness ==
    /\ ~handed
    /\ lcp_candidates.image_candidate # None
    /\ largerst_image # None
    /\ largerst_image[1].size < lcp_candidates.image_candidate[1].size


\* ===========================================================================
\* The headless event loop (ports/servoshell/desktop/events_loop.rs)
\* ===========================================================================

\* variant of FlagIsSet: sleep does not look at the flag
FlagIgnored(guard) == FALSE

\* EventsLoop::sleep: if *guard { return; }
FlagIsSet(guard) == guard

\* the part of an iteration of run_app between the return of sleep and the
\* next call of sleep
AfterSleep == {"handle", "animating", "clear", "store"}

\* EventsLoop::sleep: lock.lock()
sleep_lock ==
    /\ loop_pc = "sleep"
    /\ mutex = "free"
    /\ mutex' = "loop"
    /\ loop_pc' = "check"
    /\ UNCHANGED <<flag, waker_pc, woken>>

\* EventsLoop::sleep: return when the flag is set, else condvar.wait_timeout,
\* which gives up the mutex and starts to wait in one step
sleep_check ==
    /\ loop_pc = "check"
    /\ mutex' = "free"
    /\ IF FlagIsSet(flag)
       THEN loop_pc' = "handle" /\ woken' = FALSE
       ELSE loop_pc' = "waiting" /\ UNCHANGED woken
    /\ UNCHANGED <<flag, waker_pc>>

\* condvar.wait_timeout: the 5 ms are over (or the wait ends spuriously)
sleep_timeout ==
    /\ loop_pc = "waiting"
    /\ loop_pc' = "reacquire"
    /\ UNCHANGED <<flag, mutex, waker_pc, woken>>

\* condvar.wait_timeout: the mutex is taken again before the wait returns
sleep_reacquire ==
    /\ loop_pc = "reacquire"
    /\ mutex = "free"
    /\ mutex' = "loop"
    /\ loop_pc' = "return"
    /\ UNCHANGED <<flag, waker_pc, woken>>

\* EventsLoop::sleep returns after the wait, its guard is dropped
sleep_return ==
    /\ loop_pc = "return"
    /\ mutex' = "free"
    /\ loop_pc' = "handle"
    /\ woken' = FALSE
    /\ UNCHANGED <<flag, waker_pc>>

\* run_app: app.handle_webdriver_messages(); app.handle_events_with_headless(),
\* which says whether the loop goes on
handle_events ==
    /\ loop_pc = "handle"
    /\ \E continue \in BOOLEAN : loop_pc' = IF continue THEN "animating" ELSE "done"
    /\ UNCHANGED <<flag, mutex, waker_pc, woken>>

\* run_app: if !app.animating()
check_animating ==
    /\ loop_pc = "animating"
    /\ \E animating \in BOOLEAN : loop_pc' = IF animating THEN "sleep" ELSE "clear"
    /\ UNCHANGED <<flag, mutex, waker_pc, woken>>

\* run_app: flag.lock() of *flag.lock().unwrap() = false
clear_lock ==
    /\ loop_pc = "clear"
    /\ mutex = "free"
    /\ mutex' = "loop"
    /\ loop_pc' = "store"
    /\ UNCHANGED <<flag, waker_pc, woken>>

\* run_app: the store of *flag.lock().unwrap() = false, then the guard is dropped
clear_store ==
    /\ loop_pc = "store"
    /\ flag' = FALSE
    /\ mutex' = "free"
    /\ loop_pc' = "sleep"
    /\ UNCHANGED <<waker_pc, woken>>

\* a thread calls HeadlessEventLoopWaker::wake
wake_call(w) ==
    /\ waker_pc[w] = "idle"
    /\ waker_pc' = [waker_pc EXCEPT ![w] = "lock"]
    /\ UNCHANGED <<flag, mutex, loop_pc, woken>>

\* HeadlessEventLoopWaker::wake: flag.lock(), once the mutex is free
wake_lock(w) ==
    /\ waker_pc[w] = "lock"
    /\ mutex = "free"
    /\ mutex' = w
    /\ waker_pc' = [waker_pc EXCEPT ![w] = "set"]
    /\ UNCHANGED <<flag, loop_pc, woken>>

\* HeadlessEventLoopWaker::wake: *flag = true
wake_set(w) ==
    /\ waker_pc[w] = "set"
    /\ flag' = TRUE
    /\ waker_pc' = [waker_pc EXCEPT ![w] = "notify"]
    /\ woken' = IF loop_pc \in AfterSleep THEN TRUE ELSE woken
    /\ UNCHANGED <<mutex, loop_pc>>

\* HeadlessEventLoopWaker::wake: condvar.notify_all(), then the guard is dropped
wake_notify(w) ==
    /\ waker_pc[w] = "notify"
    /\ loop_pc' = IF loop_pc = "waiting" THEN "reacquire" ELSE loop_pc
    /\ mutex' = "free"
    /\ waker_pc' = [waker_pc EXCEPT ![w] = "idle"]
    /\ UNCHANGED <<flag, woken>>

\* EventsLoop::new (headless) and run_app up to the loop
InitLoop ==
    /\ NoDetector
    /\ NoCollector
    /\ flag = FALSE
    /\ mutex = "free"
    /\ loop_pc = "sleep"
    /\ waker_pc = [w \in Wakers |-> "idle"]
    /\ woken = FALSE

LoopThread ==
    /\ \/ sleep_lock
       \/ sleep_check
       \/ sleep_timeout
       \/ sleep_reacquire
       \/ sleep_return
       \/ handle_events
       \/ check_animating
       \/ clear_lock
       \/ clear_store
    /\ UNCHANGED <<detectorVars, collectorVars>>

WakerThread ==
    /\ \E w \in Wakers : wake_call(w) \/ wake_lock(w) \/ wake_set(w) \/ wake_notify(w)
    /\ UNCHANGED <<detectorVars, collectorVars>>

NextLoop == LoopThread \/ WakerThread

SpecLoop == InitLoop /\ [][NextLoop]_vars

\* -------------------------------------------------- claims on the event loop

\* C18: wake sets the flag and notifies the condition variable while it holds
\* the mutex; the loop never starts to wait on the condition variable with
\* the flag set, and a notify ends a wait in progress, in every interleaving
\* of the waker threads with the loop thread.
SleepNeverWaitsOnSetFlag ==
    /\ [](\A w \in Wakers : waker_pc[w] \in {"set", "notify"} => mutex = w)
    /\ [][loop_pc # "waiting" /\ loop_pc' = "waiting" => ~flag /\ ~flag']_vars
    /\ [][\A w \in Wakers : wake_notify(w) /\ loop_pc = "waiting" =>
              loop_pc' = "reacquire"]_vars

\* the loop waits while a waker, which took the mutex after the wait began,
\* has set the flag and is about to notify
SleepNeverWaitsOnSetFlagWitness ==
    /\ loop_pc = "waiting"
    /\ flag
    /\ \E w \in Wakers : waker_pc[w] = "notify" /\ mutex = w

\* C20: a wake whose store of the flag falls between the return of sleep and
\* the loop's next call of sleep (while events are handled, or before the
\* flag is cleared because the app is not animating) is not lost: the flag is
\* still set when the loop next calls sleep, and that sleep does not wait.
NoWakeLostToReset ==
    /\ loop_pc \in {"sleep", "check"} /\ woken => flag
    /\ loop_pc = "waiting" => ~woken


====
